---------------------------- MODULE Spec2Model ----------------------------
(***************************************************************************)
(* Model of src/main.py (proxy-monitor): main and load_config, the monitor  *)
(* loop                                                                    *)
(* ProxyMonitorApp.run, the per-cycle fan-out run_cycle (asyncio.gather),   *)
(* the per-target pipeline check_target -> ProxyTester.test_with_retries -> *)
(* ProxyTester.test_once, and UptimeKumaNotifier.send.                      *)
(*                                                                         *)
(* asyncio runs one coroutine at a time and switches only at an await, so  *)
(* every action below is the code run by one task from one await to the    *)
(* next.  The awaits are: client.get in test_once (pc = "probing"),        *)
(* asyncio.sleep in test_with_retries (pc = "delay"), client.get in send   *)
(* (pc = "sending"), asyncio.gather in run_cycle (phase = "cycle") and     *)
(* asyncio.sleep in run (phase = "sleeping").                              *)
(***************************************************************************)
EXTENDS Integers, Sequences, FiniteSets, TLC

\* ------------------------------------------------------------------ bounds
\* largest value of cfg.retries explored (load_config accepts any integer)
MaxRetries == 2
\* largest number of cycles the monitor loop is followed for
MaxCycles == 2

\* ------------------------------------------------------- values and inputs
\* Optional[...]: None is <<>>, a present value x is <<x>>
None == <<>>
Some(x) == <<x>>

\* what load_config returns for a document with two targets, one with a
\* remark and one without (a blank remark is stored as None)
Targets ==
    << [proxy |-> "socks5://10.0.0.1:1080", push_url |-> "https://kuma/api/push/a",
        remark |-> Some("edge-1")],
       [proxy |-> "http://10.0.0.2:8080", push_url |-> "https://kuma/api/push/b",
        remark |-> None] >>

TargetIds == 1..Len(Targets)

\* cfg.expected_status of the explored configurations
ExpectedStatuses == {200}
\* cfg.interval_minutes of the explored configurations
Intervals == {-1, 0, 1}

\* ------------------------------------------------------------ load_config
\* line 50: ALLOWED_PROXY_SCHEMES, with a variant that lets ftp through
ALLOWED_PROXY_SCHEMES_FTP == {"http", "https", "socks4", "socks5", "socks5h", "ftp"}

ALLOWED_PROXY_SCHEMES == {"http", "https", "socks4", "socks5", "socks5h"}

\* load_config lines 69-77: the required fields, in the order they are looked for
Required ==
    << "test_url", "expected_status", "retries", "timeout_seconds",
       "retry_delay_seconds", "interval_minutes", "targets" >>

RequiredKeys == {Required[i] : i \in 1..Len(Required)}

\* urlparse(proxy).scheme.lower() for the proxy URLs of this model
Scheme(proxy) ==
    CASE proxy = "socks5://10.0.0.1:1080" -> "socks5"
      [] proxy = "http://10.0.0.2:8080" -> "http"
      [] proxy = "ftp://10.0.0.3:21" -> "ftp"
      [] OTHER -> ""

\* the items of "targets" in the documents that load: keys are the keys the item
\* has; the second remark is blank
GoodItems ==
    << [keys |-> {"proxy", "push_url", "remark"}, proxy |-> "socks5://10.0.0.1:1080",
        push_url |-> "https://kuma/api/push/a", remark |-> "edge-1"],
       [keys |-> {"proxy", "push_url", "remark"}, proxy |-> "http://10.0.0.2:8080",
        push_url |-> "https://kuma/api/push/b", remark |-> " "] >>

\* items that do not load: one without proxy, one without push_url, one with an
\* ftp proxy
BadItems ==
    { [GoodItems[2] EXCEPT !.keys = {"push_url", "remark"}],
      [GoodItems[2] EXCEPT !.keys = {"proxy"}],
      [GoodItems[2] EXCEPT !.proxy = "ftp://10.0.0.3:21"] }

\* the documents that have every required field and the two good targets
GoodDocs ==
    [keys : {RequiredKeys}, retries : 0..MaxRetries, expected_status : ExpectedStatuses,
     interval_minutes : Intervals, targets : {GoodItems}]

\* one of them, and the documents made from it by taking one required field
\* away, by emptying "targets", or by putting a bad item first or last
BaseDoc == CHOOSE d \in GoodDocs : d.retries = MaxRetries /\ d.interval_minutes = 0

BadDocs ==
    {[BaseDoc EXCEPT !.keys = RequiredKeys \ {k}] : k \in RequiredKeys}
    \cup {[BaseDoc EXCEPT !.targets = <<>>]}
    \cup {[BaseDoc EXCEPT !.targets = <<GoodItems[1], b>>] : b \in BadItems}
    \cup {[BaseDoc EXCEPT !.targets = <<b, GoodItems[1]>>] : b \in BadItems}

Docs == GoodDocs \cup BadDocs

\* validate_proxy_url lines 59-62: the scheme is not allowed
UnsupportedScheme(proxy) == Scheme(proxy) \notin ALLOWED_PROXY_SCHEMES

\* load_config lines 85-88: what is raised for an item, None for nothing
ItemError(item) ==
    IF "proxy" \notin item.keys \/ "push_url" \notin item.keys
    THEN Some("Each target must contain proxy and push_url")
    ELSE IF UnsupportedScheme(item.proxy)
         THEN Some("Unsupported proxy scheme: " \o item.proxy)
         ELSE None

\* load_config lines 89-96: the ProxyTarget made of an item (item.get("remark"),
\* and a blank remark becomes None)
LoadTarget(item) ==
    [proxy |-> item.proxy, push_url |-> item.push_url,
     remark |-> IF "remark" \notin item.keys \/ item.remark \in {"", " ", "  "}
                THEN None ELSE Some(item.remark)]

\* a variant of lines 98-99 that lets an empty list of targets through
NoTargetsNever(targets) == FALSE

\* load_config lines 98-99: "if not targets"
NoTargets(targets) == Len(targets) = 0

\* load_config lines 65-109: the ValueError raised for doc (error), or the
\* AppConfig returned (error is None)
load_config(doc) ==
    LET missing == {i \in 1..Len(Required) : Required[i] \notin doc.keys}
        bad == {i \in 1..Len(doc.targets) : ItemError(doc.targets[i]) # None}
        none == [retries |-> 0, expected_status |-> 0, interval_minutes |-> 0,
                 targets |-> <<>>]
    IN  IF missing # {}
        THEN [error |-> Some("Missing config field: "
                                \o Required[CHOOSE i \in missing : \A j \in missing : i <= j]),
              cfg |-> none]
        ELSE IF bad # {}
        THEN [error |-> ItemError(doc.targets[CHOOSE i \in bad : \A j \in bad : i <= j]),
              cfg |-> none]
        ELSE IF NoTargets(doc.targets)
        THEN [error |-> Some("No targets defined"), cfg |-> none]
        ELSE [error |-> None,
              cfg |-> [retries |-> doc.retries, expected_status |-> doc.expected_status,
                       interval_minutes |-> doc.interval_minutes,
                       targets |-> [i \in 1..Len(doc.targets) |-> LoadTarget(doc.targets[i])]]]

\* ------------------------------------------------------------ the network
\* what the network can answer to the GET of test_once: a response with a
\* status code after elapsed_ms milliseconds, or an exception whose str() is text
ProbeReplies ==
    [kind : {"response"}, status : {200, 503}, elapsed_ms : {0, 950}, text : {""}]
    \cup
    [kind : {"exception"}, status : {0}, elapsed_ms : {0},
     text : {"", "OK", "FAILED", "All connection attempts failed"}]

\* what the push endpoint can answer to the GET of send
PushReplies == {"2xx", "non2xx", "transport_error"}

VARIABLES
    raw,        \* the document json.load returned to load_config
    cfg,        \* AppConfig: retries, expected_status, interval_minutes, targets
    run_once,   \* ProxyMonitorApp.run_once
    phase,      \* position of main() and run(): "start", "config_error", "init",
                \* "cycle", "sleeping", "exited", "crashed"
    cycle,      \* number of cycles started
    sleeps,     \* number of inter-cycle sleeps started
    task,       \* per target: the state of its check_target task in this cycle
    prev        \* per target: how test_with_retries ended in the cycle before

vars == <<raw, cfg, run_once, phase, cycle, sleeps, task, prev>>

\* a target's task before gather creates it
NoTask ==
    [pc |-> "idle", attempt |-> 0, probes |-> 0, delays |-> 0, soft |-> 0,
     last |-> None, exit |-> "none", result |-> None, results |-> 0,
     sends |-> 0, call |-> None, params |-> None, pushres |-> "none"]

\* ------------------------------------------------------------ pure helpers
\* str.strip() on the strings of this model
Strip(s) == IF s \in {"", " ", "  "} THEN "" ELSE s

\* check_target: identifier = remark if (remark and str(remark).strip()) else proxy
Identifier(t) ==
    LET target == Targets[t] IN
    IF target.remark # None /\ target.remark[1] # "" /\ Strip(target.remark[1]) # ""
    THEN target.remark[1]
    ELSE target.proxy

\* test_once: the (ok, ping, err) it returns for a reply
TestOnce(reply) ==
    IF reply.kind = "exception"
    THEN [ok |-> FALSE, ping |-> None, err |-> Some(reply.text)]
    ELSE IF reply.status = cfg.expected_status
         THEN [ok |-> TRUE, ping |-> Some(reply.elapsed_ms), err |-> None]
         ELSE [ok |-> FALSE, ping |-> None, err |-> None]


\* a variant of line 142 that tests the truth of err: "if err"
ErrIsTruthy(r) == r.err # None /\ r.err[1] # ""

\* test_with_retries line 142: "if err is not None"
ErrIsSet(r) == r.err # None

\* a variant of line 147 that also tests the truth of ping: "if ok and ping"
OkAndPing(r) == r.ok /\ r.ping # None /\ r.ping[1] # 0

\* test_with_retries line 147: "if ok"
OkIsSet(r) == r.ok

\* a variant of lines 161-162 that never sleeps between two attempts
ShouldSleepNever(attempt) == attempt > cfg.retries

\* test_with_retries line 161: "if attempt < self.cfg.retries" (sleep before the next attempt)
ShouldSleep(attempt) == attempt < cfg.retries

\* a variant of line 139 with one pass too many: range(1, retries + 2)
InRangePlusOne(attempt) == 1 <= attempt /\ attempt <= cfg.retries + 1

\* test_with_retries line 139: the for loop runs its body for attempt in range(1, retries + 1)
InRange(attempt) == 1 <= attempt /\ attempt <= cfg.retries

\* a variant of line 208 that tests the truth of ping: "if ping"
PingStrTruthy(ping) ==
    IF ping # None /\ ping[1] # 0 THEN ToString(ping[1]) \o " ms" ELSE ""

\* check_target line 208: ping_str = f"{ping} ms" if ping is not None else ""
PingStr(ping) == IF ping # None THEN ToString(ping[1]) \o " ms" ELSE ""

\* a variant of lines 206-215 without the branch of line 211
FinalMessageNoFailed(t, res) ==
    IF res.ok
    THEN "OK : " \o Identifier(t) \o " : OK (" \o PingStr(res.ping) \o ")"
    ELSE "ERROR : " \o Identifier(t) \o " : " \o res.message

\* check_target lines 206-215: final_message from (ok, ping, message)
FinalMessage(t, res) ==
    IF res.ok
    THEN "OK : " \o Identifier(t) \o " : OK (" \o PingStr(res.ping) \o ")"
    ELSE IF res.message = "FAILED"
         THEN "FAILED : " \o Identifier(t) \o " : FAILED"
         ELSE "ERROR : " \o Identifier(t) \o " : " \o res.message

\* check_target line 217: status = "up" if ok else "down"
Status(res) == IF res.ok THEN "up" ELSE "down"

\* send line 177: "ping": ping if ping is not None else ""  (httpx writes an int as str(int))
PingParam(ping) == IF ping # None THEN ToString(ping[1]) ELSE ""

\* send lines 174-178: the query parameters of the push
Params(status, message, ping) ==
    [status |-> status, msg |-> message, ping |-> PingParam(ping)]

\* a variant of line 219 that reports only a target that is up
NotifyOnlyUp(t, s) ==
    LET res == s.result[1] IN
    IF res.ok
    THEN [s EXCEPT !.pc = "sending",
                   !.sends = @ + 1,
                   !.call = Some([push_url |-> Targets[t].push_url, status |-> Status(res),
                                  message |-> FinalMessage(t, res), ping |-> res.ping]),
                   !.params = Some(Params(Status(res), FinalMessage(t, res), res.ping))]
    ELSE [s EXCEPT !.pc = "done"]

\* check_target line 219 with send lines 173-182: the task calls notifier.send and
\* suspends in the GET of the push
Notify(t, s) ==
    LET res == s.result[1]
        ping == IF res.ok THEN res.ping ELSE None
    IN  [s EXCEPT !.pc = "sending",
                  !.sends = @ + 1,
                  !.call = Some([push_url |-> Targets[t].push_url, status |-> Status(res),
                                 message |-> FinalMessage(t, res), ping |-> ping]),
                  !.params = Some(Params(Status(res), FinalMessage(t, res), ping))]

\* test_with_retries returns res through the return statement named by exit;
\* check_target (lines 204-219) goes on with it
Return(t, s, res, exit) ==
    Notify(t, [s EXCEPT !.result = Some(res), !.results = @ + 1, !.exit = exit])

\* test_with_retries lines 139-140 and 164-165: the head of the for loop with the
\* next value of attempt: either test_once is called (and suspends in its GET), or
\* the loop is over and (False, None, "FAILED") is returned
LoopHead(t, s, attempt) ==
    IF InRange(attempt)
    THEN [s EXCEPT !.pc = "probing", !.attempt = attempt, !.probes = @ + 1]
    ELSE Return(t, s, [ok |-> FALSE, ping |-> None, message |-> "FAILED"],
                "ExhaustedFailures")

\* test_with_retries lines 140-162: what follows the return of test_once with r
AfterProbe(t, s0, r) ==
    LET s == [s0 EXCEPT !.last = Some(r)] IN
    IF ErrIsSet(r)
    THEN Return(t, s, [ok |-> FALSE, ping |-> None, message |-> r.err[1]], "Errored")
    ELSE IF OkIsSet(r)
         THEN Return(t, s, [ok |-> TRUE, ping |-> r.ping, message |-> "OK"], "Succeeded")
         ELSE LET f == [s EXCEPT !.soft = @ + 1] IN
              IF ShouldSleep(s.attempt)
              THEN [f EXCEPT !.pc = "delay", !.delays = @ + 1]
              ELSE LoopHead(t, f, s.attempt + 1)

\* a variant of lines 180-187 without the try/except
SendOutcomeUncaught(reply) == IF reply = "2xx" THEN "sent" ELSE "raised"

\* send lines 180-187: the try/except around the GET and raise_for_status:
\* "sent" (Push sent is logged), or "failed" (the exception is caught and
\* Push failed is logged); "raised" would be an exception leaving send
SendOutcome(reply) == IF reply = "2xx" THEN "sent" ELSE "failed"

\* a variant of lines 222-224 that returns with the first finished task
\* (asyncio.wait with FIRST_COMPLETED)
GatherFirstDone == \E t \in TargetIds : task[t].pc = "done"

\* run_cycle lines 222-224: asyncio.gather returns once every task has finished
GatherDone == \A t \in TargetIds : task[t].pc = "done"

\* a variant of lines 222-224 that awaits the targets one after the other
ScheduledInOrder(t) ==
    task[t].pc = "ready" /\ \A u \in 1..(t - 1) : task[u].pc = "done"

\* run_cycle lines 222-224: gather wraps every coroutine in a task of its own, so
\* the task of t can run as soon as it has been created, whatever the others do
Scheduled(t) == task[t].pc = "ready"

\* a variant of line 231 that looks at run_once alone: "if self.run_once: break"
BreakOnRunOnce == run_once

\* a variant of line 139 that keeps the attempt counter on the ProxyTester shared
\* by all the targets (self.attempt) instead of in the coroutine
SharedAttempt(t) ==
    LET a == {task[u].attempt : u \in TargetIds} IN
    CHOOSE n \in a : \A m \in a : m <= n

\* test_with_retries line 139: attempt is a local variable of the call of
\* test_with_retries for target t
AttemptOf(t) == task[t].attempt

\* run line 231: "if self.run_once or self.cfg.interval_minutes <= 0: break"
Break == run_once \/ cfg.interval_minutes <= 0

\* run_cycle lines 222-224: gather makes one fresh task per target
FreshTasks == [t \in TargetIds |-> [NoTask EXCEPT !.pc = "ready"]]


\* ----------------------------------------------------------------- actions
\* the configurations load_config can return (it checks neither the sign of
\* retries nor of interval_minutes), before main calls asyncio.run(app.run())
Init ==
    /\ raw \in {doc \in Docs : load_config(doc).error = None}
    /\ cfg = load_config(raw).cfg
    /\ run_once \in BOOLEAN
    /\ phase = "init"
    /\ cycle = 0
    /\ sleeps = 0
    /\ task = [t \in TargetIds |-> NoTask]
    /\ prev = [t \in TargetIds |-> "none"]

\* run lines 227-229 with run_cycle lines 222-224: the first pass of "while True"
\* starts a cycle, gather creates the tasks and run suspends in it
run ==
    /\ phase = "init"
    /\ phase' = "cycle"
    /\ cycle' = cycle + 1
    /\ task' = FreshTasks
    /\ UNCHANGED <<raw, prev, cfg, run_once, sleeps>>

\* check_target lines 201-204 into test_with_retries lines 138-140: the task of
\* target t runs for the first time, up to its first await
check_target(t) ==
    /\ phase = "cycle"
    /\ Scheduled(t)
    /\ task' = [task EXCEPT ![t] = LoopHead(t, task[t], 1)]
    /\ UNCHANGED <<raw, prev, cfg, run_once, phase, cycle, sleeps>>

\* test_once lines 120-136 returning into test_with_retries lines 140-165 (and,
\* on a return, check_target lines 206-219): the GET of target t ends with reply
test_once(t, reply) ==
    /\ phase = "cycle"
    /\ task[t].pc = "probing"
    /\ task' = [task EXCEPT ![t] = AfterProbe(t, task[t], TestOnce(reply))]
    /\ UNCHANGED <<raw, prev, cfg, run_once, phase, cycle, sleeps>>

\* test_with_retries line 162 back to lines 139-140: the retry delay of target t
\* is over and the next pass of the loop starts
retry_delay(t) ==
    /\ phase = "cycle"
    /\ task[t].pc = "delay"
    /\ task' = [task EXCEPT ![t] = LoopHead(t, task[t], AttemptOf(t) + 1)]
    /\ UNCHANGED <<raw, prev, cfg, run_once, phase, cycle, sleeps>>

\* send lines 180-187: the GET of the push of target t ends with reply.  An
\* exception leaving send would leave check_target and gather (which has no
\* return_exceptions), run_cycle, run and asyncio.run, which cancels the tasks
\* still pending
send(t, reply) ==
    /\ phase = "cycle"
    /\ task[t].pc = "sending"
    /\ IF SendOutcome(reply) = "raised"
       THEN /\ phase' = "crashed"
            /\ task' = [u \in TargetIds |->
                          IF u = t THEN [task[u] EXCEPT !.pc = "raised", !.pushres = "raised"]
                          ELSE IF task[u].pc = "done" THEN task[u]
                          ELSE [task[u] EXCEPT !.pc = "cancelled"]]
       ELSE /\ phase' = phase
            /\ task' = [task EXCEPT ![t].pc = "done", ![t].pushres = SendOutcome(reply)]
    /\ UNCHANGED <<raw, prev, cfg, run_once, cycle, sleeps>>

\* run_cycle lines 222-224 returning into run lines 231-236: gather returns, and
\* run either leaves the loop or suspends in the interval sleep
run_cycle ==
    /\ phase = "cycle"
    /\ GatherDone
    /\ IF Break
       THEN phase' = "exited" /\ sleeps' = sleeps
       ELSE phase' = "sleeping" /\ sleeps' = sleeps + 1
    /\ UNCHANGED <<raw, prev, cfg, run_once, cycle, task>>

\* run line 236 back to lines 227-229: the interval sleep is over and the next
\* cycle starts (followed for MaxCycles cycles)
interval_sleep ==
    /\ phase = "sleeping"
    /\ cycle < MaxCycles
    /\ phase' = "cycle"
    /\ cycle' = cycle + 1
    /\ task' = FreshTasks
    /\ prev' = [t \in TargetIds |-> task[t].exit]
    /\ UNCHANGED <<raw, cfg, run_once, sleeps>>

\* the steps of the pipeline of target t
Pipeline(t) ==
    \/ check_target(t)
    \/ \E reply \in ProbeReplies : test_once(t, reply)
    \/ retry_delay(t)
    \/ \E reply \in PushReplies : send(t, reply)

Next ==
    \/ run
    \/ \E t \in TargetIds : check_target(t)
    \/ \E t \in TargetIds, reply \in ProbeReplies : test_once(t, reply)
    \/ \E t \in TargetIds : retry_delay(t)
    \/ \E t \in TargetIds, reply \in PushReplies : send(t, reply)
    \/ run_cycle
    \/ interval_sleep

Spec == Init /\ [][Next]_vars

\* main lines 269-273, before load_config is called: the arguments are parsed and
\* the document is any of Docs
InitMain ==
    /\ raw \in Docs
    /\ cfg = [retries |-> 0, expected_status |-> 0, interval_minutes |-> 0,
              targets |-> <<>>]
    /\ run_once \in BOOLEAN
    /\ phase = "start"
    /\ cycle = 0
    /\ sleeps = 0
    /\ task = [t \in TargetIds |-> NoTask]
    /\ prev = [t \in TargetIds |-> "none"]

\* main lines 273-274: load_config either raises its ValueError, which leaves main
\* and ends the process, or returns the AppConfig the app is made with
main ==
    /\ phase = "start"
    /\ IF load_config(raw).error # None
       THEN phase' = "config_error" /\ cfg' = cfg
       ELSE phase' = "init" /\ cfg' = load_config(raw).cfg
    /\ UNCHANGED <<raw, prev, run_once, cycle, sleeps, task>>

NextMain ==
    \/ main
    \/ Next

\* the whole process, from main on
SpecMain == InitMain /\ [][NextMain]_vars


\* the monitor loop under the scheduling of asyncio for the second target alone:
\* a ready task is run, and its GETs (bounded by their timeouts) and its retry
\* delay come to an end; nothing is assumed of the first target, whose probe or
\* delay may stay suspended for ever
SpecIsolation == Spec /\ WF_vars(Pipeline(2))

\* the monitor loop under the scheduling of asyncio when every await comes to an
\* end: a ready task is run, every GET returns (a response, or the exception of
\* its timeout), every retry delay and every interval sleep elapses
SpecFair ==
    /\ Spec
    /\ \A t \in TargetIds : WF_vars(Pipeline(t))
    /\ WF_vars(run)
    /\ WF_vars(run_cycle)
    /\ WF_vars(interval_sleep)

\* ------------------------------------------------------------------ claims
\* run_cycle has returned in the current cycle
CycleReturned == phase \in {"sleeping", "exited"}

\* the (ok, ping, message) returned for a hard error with text detail
DownError(detail) == [ok |-> FALSE, ping |-> None, message |-> detail]

\* the (ok, ping, message) returned when the retries are exhausted
DownFailed == [ok |-> FALSE, ping |-> None, message |-> "FAILED"]

\* the (ok, ping, message) returned for a success with latency ms
Up(ms) == [ok |-> TRUE, ping |-> Some(ms), message |-> "OK"]

\* the last outcome of test_once for target t in this cycle was a hard error
LastHardError(t) == task[t].last # None /\ task[t].last[1].err # None

\* the last outcome of test_once for target t in this cycle was a success
LastSuccess(t) == task[t].last # None /\ task[t].last[1].ok

\* C1: in every cycle and for every target, test_with_retries returns at most one
\* terminal result and send is called at most once, the two go together, and when
\* the task has finished or run_cycle has returned both have happened exactly
\* once, whatever the probe outcomes and the number of attempts were.
C1_OneResultOneSend ==
    \A t \in TargetIds :
        /\ task[t].results <= 1
        /\ task[t].sends = task[t].results
        /\ (task[t].pc \in {"sending", "done"} \/ CycleReturned)
              => task[t].results = 1 /\ task[t].sends = 1

C1_Witness ==
    /\ CycleReturned
    /\ task[1].exit = "Errored" /\ task[1].probes = 2 /\ task[1].sends = 1
    /\ task[2].exit = "ExhaustedFailures" /\ task[2].probes = 2 /\ task[2].sends = 1

\* C2: once an attempt n of a target has returned a hard error msg (after n-1
\* soft failures), test_with_retries has returned (False, None, msg) through the
\* return of the error branch, and no probe and no retry delay follows in that
\* cycle: the probes stay n and the delays n-1, whatever the retry budget left.
C2_HardErrorShortCircuits ==
    \A t \in TargetIds :
        LastHardError(t) =>
            /\ task[t].exit = "Errored"
            /\ task[t].result = Some(DownError(task[t].last[1].err[1]))
            /\ task[t].pc \in {"sending", "done"}
            /\ task[t].probes = task[t].soft + 1
            /\ task[t].delays = task[t].soft

C2_Witness ==
    /\ cfg.retries = 2
    /\ LastHardError(1) /\ task[1].last[1].err[1] = ""
    /\ task[1].probes = 1 /\ task[1].delays = 0 /\ task[1].pc = "done"
    /\ LastHardError(2) /\ task[2].probes = 2 /\ task[2].delays = 1

\* C3: a target whose probes all returned a soft failure, `retries` of them, ends
\* with (False, None, "FAILED") after exactly `retries` probes and exactly
\* retries - 1 retry delays.
C3_ExhaustedCounts ==
    \A t \in TargetIds :
        (task[t].exit = "ExhaustedFailures" /\ task[t].soft = cfg.retries) =>
            /\ task[t].result = Some(DownFailed)
            /\ task[t].probes = cfg.retries
            /\ task[t].delays = cfg.retries - 1

\* what the code does guarantee where C3 fails: whenever the retries are
\* exhausted no probe returned anything but a soft failure, and the probes are
\* max(retries, 0) and the delays max(retries - 1, 0)
ExhaustedCountsOfCode ==
    \A t \in TargetIds :
        task[t].exit = "ExhaustedFailures" =>
            /\ task[t].result = Some(DownFailed)
            /\ task[t].soft = task[t].probes
            /\ task[t].probes = (IF cfg.retries >= 1 THEN cfg.retries ELSE 0)
            /\ task[t].delays = (IF cfg.retries >= 1 THEN cfg.retries - 1 ELSE 0)

\* C4: a target whose attempts 1..k-1 returned a soft failure and whose attempt k
\* returned a success with latency ms ends with (True, ms, "OK") at attempt k:
\* exactly k probes and k-1 delays were made, k <= retries, and no probe and no
\* delay follows the success (a success always ends the loop).
C4_SuccessAtAttemptK ==
    \A t \in TargetIds :
        /\ LastSuccess(t) <=> task[t].exit = "Succeeded"
        /\ task[t].exit = "Succeeded" =>
              LET k == task[t].soft + 1 IN
              /\ task[t].result = Some(Up(task[t].last[1].ping[1]))
              /\ task[t].attempt = k
              /\ task[t].probes = k
              /\ task[t].delays = k - 1
              /\ k <= cfg.retries
              /\ task[t].pc \in {"sending", "done"}

C4_Witness ==
    /\ cfg.retries = 2
    /\ task[1].exit = "Succeeded" /\ task[1].soft = 1 /\ task[1].attempt = 2
    /\ task[1].result = Some(Up(950)) /\ task[1].pc = "done"
    /\ task[2].exit = "Succeeded" /\ task[2].soft = 0 /\ task[2].result = Some(Up(0))

\* C5: in a cycle, the second target always reaches its terminal result and its
\* call of send, also when the probe or the retry delay of the first target stays
\* suspended for ever: nothing the first target does or fails to do blocks it.
C5_Isolation ==
    (phase = "cycle" /\ task[2].pc # "done")
        ~> (task[2].pc = "done" /\ task[2].results = 1 /\ task[2].sends = 1)

C5_Witness ==
    /\ phase = "cycle"
    /\ task[1].pc = "probing" /\ task[1].probes = 1 /\ task[1].sends = 0
    /\ task[2].pc = "done" /\ task[2].exit = "Succeeded" /\ task[2].sends = 1
    /\ task[2].pushres = "sent"

\* C6: for every target that ended with a hard error of text detail (the empty
\* text, "OK" and "FAILED" included), send is called with the message
\* "ERROR : <id> : <detail>", the status "down" and no ping.
C6_ErrorTemplate ==
    \A t \in TargetIds :
        task[t].exit = "Errored" =>
            task[t].call =
                Some([push_url |-> Targets[t].push_url, status |-> "down",
                      message |-> "ERROR : " \o Identifier(t) \o " : "
                                      \o task[t].last[1].err[1],
                      ping |-> None])

\* C7: for every target that ended with a success of latency ms >= 0 (0
\* included), send is called with the message "OK : <id> : OK (<ms> ms)", the
\* status "up" and the ping ms, and the push carries them as its parameters.
C7_OkTemplate ==
    \A t \in TargetIds :
        task[t].exit = "Succeeded" =>
            LET ms == task[t].last[1].ping[1]
                message == "OK : " \o Identifier(t) \o " : OK (" \o ToString(ms) \o " ms)"
            IN  /\ ms >= 0
                /\ task[t].call =
                      Some([push_url |-> Targets[t].push_url, status |-> "up",
                            message |-> message, ping |-> Some(ms)])
                /\ task[t].params =
                      Some([status |-> "up", msg |-> message, ping |-> ToString(ms)])

C7_Witness ==
    /\ task[1].exit = "Succeeded"
    /\ task[1].call[1].message = "OK : edge-1 : OK (950 ms)"
    /\ task[1].call[1].status = "up" /\ task[1].call[1].ping = Some(950)
    /\ task[2].exit = "Succeeded"
    /\ task[2].call[1].message = "OK : http://10.0.0.2:8080 : OK (0 ms)"
    /\ task[2].params[1].ping = "0"

\* C8: for every target whose retries were exhausted by soft failures, send is
\* called with the message "FAILED : <id> : FAILED", the status "down" and no
\* ping, and the push carries an empty ping parameter.
C8_FailedTemplate ==
    \A t \in TargetIds :
        task[t].exit = "ExhaustedFailures" =>
            LET message == "FAILED : " \o Identifier(t) \o " : FAILED" IN
            /\ task[t].call =
                  Some([push_url |-> Targets[t].push_url, status |-> "down",
                        message |-> message, ping |-> None])
            /\ task[t].params =
                  Some([status |-> "down", msg |-> message, ping |-> ""])

C8_Witness ==
    /\ cfg.retries = 2
    /\ task[1].exit = "ExhaustedFailures" /\ task[1].soft = 2 /\ task[1].pc = "done"
    /\ task[1].call[1].message = "FAILED : edge-1 : FAILED"
    /\ task[1].params[1].ping = ""

\* C9: in every state where run_cycle has returned, send has been called and
\* has finished (delivered or not) for every target in that cycle.
C9_CycleWaitsForSends ==
    CycleReturned =>
        \A t \in TargetIds :
            /\ task[t].pc = "done"
            /\ task[t].sends = 1
            /\ task[t].pushres \in {"sent", "failed"}

C9_Witness ==
    /\ CycleReturned
    /\ task[1].pushres = "failed" /\ task[1].probes = 2
    /\ task[2].pushres = "sent"

\* C10: a failed delivery (a transport failure or a non-2xx response) stays
\* inside send: no exception leaves it, so run is never aborted and no task is
\* cancelled; the push is not tried again (one call of send for the target in
\* the cycle); and when run_cycle returns every target, the others included, has
\* its terminal result and its call of send.
C10_PushFailureContained ==
    /\ phase # "crashed"
    /\ \A t \in TargetIds :
          /\ task[t].pc \notin {"raised", "cancelled"}
          /\ task[t].sends <= 1
          /\ task[t].pushres = "failed" => (task[t].pc = "done" /\ task[t].sends = 1)
    /\ CycleReturned =>
          \A t \in TargetIds : task[t].results = 1 /\ task[t].sends = 1

C10_Witness ==
    /\ phase = "sleeping"
    /\ task[1].pushres = "failed" /\ task[1].sends = 1
    /\ task[2].pushres = "sent" /\ task[2].exit = "Succeeded" /\ task[2].sends = 1


\* C11: with run_once set (whatever interval_minutes is) or interval_minutes <= 0,
\* run makes exactly one cycle and then ends without any interval sleep;
\* otherwise run never ends and sleeps once between two consecutive cycles.
C11_OneCycleOrSleep ==
    /\ phase # "crashed"
    /\ (run_once \/ cfg.interval_minutes <= 0) =>
          /\ cycle <= 1
          /\ sleeps = 0
          /\ phase \in {"init", "cycle", "exited"}
          /\ phase = "exited" => cycle = 1
    /\ (~run_once /\ cfg.interval_minutes > 0) =>
          /\ phase \in {"init", "cycle", "sleeping"}
          /\ phase = "init" => (cycle = 0 /\ sleeps = 0)
          /\ phase = "cycle" => sleeps = cycle - 1
          /\ phase = "sleeping" => sleeps = cycle

C11_Witness ==
    /\ ~run_once /\ cfg.interval_minutes = 0
    /\ phase = "exited" /\ cycle = 1 /\ sleeps = 0
    /\ \A t \in TargetIds : task[t].sends = 1


\* the probes of target t that have returned in this cycle
Returned(t) ==
    task[t].soft + (IF task[t].exit \in {"Errored", "Succeeded"} THEN 1 ELSE 0)

\* the last outcome of test_once for target t in this cycle was a soft failure
LastSoftFailure(t) ==
    task[t].last # None /\ ~task[t].last[1].ok /\ task[t].last[1].err = None

\* C13: within the pipeline of one target the events are in order: at most one
\* probe is in flight, a further attempt starts only from the retry delay that
\* follows an attempt classified as a soft failure, and send is called only
\* once test_with_retries has returned the terminal result.
C13_PipelineOrder ==
    /\ [](\A t \in TargetIds :
             /\ task[t].probes - Returned(t) = (IF task[t].pc = "probing" THEN 1 ELSE 0)
             /\ task[t].attempt = task[t].probes
             /\ task[t].sends >= 1 => (task[t].results = 1 /\ task[t].result # None)
             /\ task[t].pc = "delay" => LastSoftFailure(t))
    /\ [][\A t \in TargetIds :
             (task'[t].probes = task[t].probes + 1 /\ task[t].probes >= 1) =>
                 /\ task[t].pc = "delay"
                 /\ LastSoftFailure(t)
                 /\ task'[t].attempt = task[t].attempt + 1]_vars

C13_Witness ==
    /\ task[1].pc = "probing" /\ task[1].probes = 2 /\ task[1].delays = 1
    /\ LastSoftFailure(1) /\ task[1].sends = 0
    /\ task[2].pc = "sending" /\ task[2].probes = 2 /\ task[2].results = 1


\* C15: with interval_minutes > 0 and run_once unset, no outcome of a probe or of
\* a push ends the loop: run never exits and never dies of an exception, every
\* cycle is followed by the interval sleep, and every sleep by the next cycle
\* (for as many cycles as are followed).
C15_LoopNeverEnds ==
    /\ []((~run_once /\ cfg.interval_minutes > 0) => phase \notin {"exited", "crashed"})
    /\ (~run_once /\ cfg.interval_minutes > 0 /\ phase = "cycle") ~> (phase = "sleeping")
    /\ (phase = "sleeping" /\ cycle < MaxCycles) ~> (phase = "cycle")

C15_Witness ==
    /\ ~run_once /\ cfg.interval_minutes > 0
    /\ phase = "cycle" /\ cycle = 2 /\ sleeps = 1
    /\ task[1].exit = "Errored" /\ task[1].pushres = "failed"
    /\ task[2].exit = "ExhaustedFailures" /\ task[2].pc = "sending"

C17_RetryStateMachine ==
    \A t \in TargetIds :
        /\ task[t].probes <= cfg.retries
        /\ task[t].delays <= task[t].soft
        /\ task[t].pc = "delay" => (LastSoftFailure(t) /\ task[t].attempt < cfg.retries)
        /\ task[t].results = 1 => task[t].delays = task[t].probes - 1

\* what the code does guarantee where C17 fails: the same, with no delay at all
\* for a target that made no attempt (retries <= 0)
RetryStateMachineOfCode ==
    \A t \in TargetIds :
        /\ task[t].probes <= cfg.retries
        /\ task[t].delays <= task[t].soft
        /\ task[t].pc = "delay" => (LastSoftFailure(t) /\ task[t].attempt < cfg.retries)
        /\ task[t].results = 1 =>
              task[t].delays = (IF task[t].probes >= 1 THEN task[t].probes - 1 ELSE 0)

\* C20: cycles do not overlap: outside a cycle no task is in flight, and a new
\* cycle starts only from the initial state or from the interval sleep, when
\* run_cycle has returned and every task of the cycle before has finished.
C20_NoOverlap ==
    /\ [](phase # "cycle" =>
             \A t \in TargetIds : task[t].pc \in {"idle", "done"})
    /\ [](phase = "sleeping" => sleeps = cycle)
    /\ [][cycle' # cycle =>
             /\ cycle' = cycle + 1
             /\ phase \in {"init", "sleeping"}
             /\ phase' = "cycle"
             /\ \A t \in TargetIds :
                   task[t].pc \in {"idle", "done"} /\ task'[t].pc = "ready"]_vars

C20_Witness ==
    /\ cycle = 2 /\ phase = "cycle" /\ sleeps = 1
    /\ task[1].pc = "probing" /\ task[1].probes = 1
    /\ task[2].pc = "sending"


\* what send is called with for target t, from nothing but the configuration
\* and the probe outcomes of t itself: softs soft failures followed by last
\* (a success, a hard error, or nothing more when the retries are exhausted)
OwnReport(t, softs, last) ==
    IF last # None /\ last[1].ok
    THEN [attempts |-> softs + 1, status |-> "up",
          message |-> "OK : " \o Identifier(t) \o " : OK ("
                          \o ToString(last[1].ping[1]) \o " ms)",
          ping |-> last[1].ping]
    ELSE IF last # None /\ last[1].err # None
         THEN [attempts |-> softs + 1, status |-> "down",
               message |-> IF last[1].err[1] = "FAILED"
                           THEN "FAILED : " \o Identifier(t) \o " : FAILED"
                           ELSE "ERROR : " \o Identifier(t) \o " : " \o last[1].err[1],
               ping |-> None]
         ELSE [attempts |-> softs, status |-> "down",
               message |-> "FAILED : " \o Identifier(t) \o " : FAILED",
               ping |-> None]

\* the probe outcomes of target t are complete: a success, a hard error, or as
\* many soft failures as there are attempts
OutcomesComplete(t) ==
    \/ LastSuccess(t)
    \/ LastHardError(t)
    \/ (task[t].pc # "idle" /\ task[t].pc # "ready" /\ task[t].soft >= cfg.retries)

\* C18: what a target does is decided by its own probe outcomes alone: it ends
\* only when they are complete, and then its number of attempts and the
\* (status, message, ping) given to send are a function of them and of the
\* configuration, whatever the other target got (success, soft failures, hard error, failed push); no task is ever
\* cancelled, and a step of one target leaves the task of the other as it was.
C18_NoInterference ==
    /\ [](\A t \in TargetIds :
             /\ task[t].pc \notin {"cancelled", "raised"}
             /\ task[t].results >= 1 => OutcomesComplete(t)
             /\ OutcomesComplete(t) =>
                   LET own == OwnReport(t, task[t].soft, task[t].last) IN
                   /\ task[t].probes = own.attempts
                   /\ task[t].call # None
                   /\ task[t].call[1].status = own.status
                   /\ task[t].call[1].message = own.message
                   /\ task[t].call[1].ping = own.ping)
    /\ [][cycle' = cycle =>
             \A t, u \in TargetIds :
                 (t # u /\ task'[t] # task[t]) => task'[u] = task[u]]_vars

C18_Witness ==
    /\ cfg.retries = 2
    /\ task[1].exit = "Errored" /\ task[1].pushres = "failed" /\ task[1].probes = 1
    /\ task[2].exit = "Succeeded" /\ task[2].probes = 2 /\ task[2].pc = "done"
    /\ task[2].call[1].message = "OK : http://10.0.0.2:8080 : OK (950 ms)"


\* a document load_config has to refuse: a required field is missing, "targets"
\* is empty, a target has no proxy or no push_url, or the scheme of a proxy is
\* none of http, https, socks4, socks5, socks5h
Faulty(doc) ==
    \/ \E k \in RequiredKeys : k \notin doc.keys
    \/ doc.targets = <<>>
    \/ \E i \in 1..Len(doc.targets) :
          \/ "proxy" \notin doc.targets[i].keys
          \/ "push_url" \notin doc.targets[i].keys
          \/ Scheme(doc.targets[i].proxy) \notin {"http", "https", "socks4", "socks5", "socks5h"}

\* C12: for a document with a missing required field, an empty list of targets,
\* a target without proxy or push_url, or a proxy of another scheme than http,
\* https, socks4, socks5, socks5h (ftp), load_config raises its error; and when it
\* has raised, no cycle starts: no probe and no call of send ever happens.  A
\* document it accepts gives the targets of the model.
C12_ConfigErrorsAreFatal ==
    /\ (phase # "start" /\ Faulty(raw)) => phase = "config_error"
    /\ phase = "config_error" =>
          /\ load_config(raw).error # None
          /\ cycle = 0 /\ sleeps = 0
          /\ \A t \in TargetIds : task[t] = NoTask
    /\ phase \notin {"start", "config_error"} => cfg.targets = Targets

C12_Witness ==
    /\ phase = "config_error"
    /\ Len(raw.targets) = 2
    /\ raw.targets[2].proxy = "ftp://10.0.0.3:21"
    /\ load_config(raw).error = Some("Unsupported proxy scheme: ftp://10.0.0.3:21")

\* C14: the retry budget is per cycle: in a later cycle a target that ended down
\* (hard error or exhausted retries) in the cycle before starts again with a fresh
\* attempt counter, is probed again, and has the whole budget of `retries`
\* attempts before it is reported as failed.
C14_BudgetPerCycle ==
    \A t \in TargetIds :
        (cycle >= 2 /\ prev[t] \in {"Errored", "ExhaustedFailures"}) =>
            /\ task[t].pc = "ready" => (task[t].attempt = 0 /\ task[t].probes = 0)
            /\ task[t].attempt = task[t].probes
            /\ task[t].pc \in {"sending", "done"} => task[t].probes >= 1
            /\ task[t].exit = "ExhaustedFailures" => task[t].soft = cfg.retries

\* what the code does guarantee where C14 fails: in every cycle the attempt
\* counter is fresh and the whole budget is there, and with retries >= 1 a target
\* that was down is probed again
BudgetPerCycleOfCode ==
    \A t \in TargetIds :
        /\ task[t].pc = "ready" => (task[t].attempt = 0 /\ task[t].probes = 0)
        /\ task[t].attempt = task[t].probes
        /\ (task[t].pc \in {"sending", "done"} /\ cfg.retries >= 1) => task[t].probes >= 1
        /\ task[t].exit = "ExhaustedFailures" => task[t].soft = cfg.retries

\* a target that was down in the first cycle is reported up in the second one,
\* after one soft failure (a state the code reaches)
UpAfterDown ==
    /\ cycle = 2
    /\ prev[1] = "ExhaustedFailures" /\ prev[2] = "Errored"
    /\ task[1].exit = "Succeeded" /\ task[1].attempt = 2 /\ task[1].pc = "done"
    /\ task[2].exit = "Succeeded" /\ task[2].attempt = 1 /\ task[2].pc = "done"

\* C19: for every configuration load_config accepts, a target has been probed at
\* least once in the cycle when its terminal result is produced, and it is
\* reported as failed only after at least one soft failure.
C19_ProbedBeforeResult ==
    \A t \in TargetIds :
        /\ task[t].results >= 1 => task[t].probes >= 1
        /\ task[t].exit = "ExhaustedFailures" => task[t].soft >= 1

=============================================================================
